---- MODULE Spec2Model ----
(***************************************************************************)
(* Model of the inventory store (src/src/manager.py), its item model       *)
(* (src/src/models.py) and the SQLite table it persists to.                *)
(*                                                                         *)
(* Values.  A Python value is a record [t, n] (numbers) or [t, s] (names). *)
(* t is the Python type; n is the numeric value in hundredths, so that the *)
(* int 5 is [t |-> "int", n |-> 500] and the float 18.50 is                *)
(* [t |-> "float", n |-> 1850]; s is the string as a sequence of chars.    *)
(***************************************************************************)
EXTENDS Integers, Sequences, FiniteSets, TLC

\* ------------------------------------------------------------------ bounds
MaxId == 2            \* largest rowid the model lets INSERT assign
MaxRows == 2          \* largest number of rows held at once
MaxNameLen == 3       \* longest name enumerated character by character

Scale == 10 * 10      \* hundredths: the unit of every numeric n

\* --------------------------------------------------------- Python values
NoneNum == [t |-> "none", n |-> 0]
NoneName == [t |-> "none", s |-> <<>>]
PyInt(k) == [t |-> "int", n |-> k * Scale]
PyFloat(h) == [t |-> "float", n |-> h]
PyStr(chars) == [t |-> "str", s |-> chars]

IsNone(x) == x.t = "none"

\* Python ==  on numbers compares by value: 0 == 0.0.
PyEq(x, y) == IF x.t \in {"int", "float", "bool"} /\ y.t \in {"int", "float", "bool"}
              THEN x.n = y.n
              ELSE x = y

\* ------------------------------------------------------------ Item Model
MAX_NAME_LENGHT == 255
MIN_QUANTITY == 0
MAX_QUANTITY == 1000000
MIN_PRICE == 0
MAX_PRICE == 1000000

IsSpace(c) == c \in {" ", "\t", "\n"}

RECURSIVE lstrip(_)
lstrip(s) == IF s = <<>> THEN s
             ELSE IF IsSpace(Head(s)) THEN lstrip(Tail(s)) ELSE s

RECURSIVE rstrip(_)
rstrip(s) == IF s = <<>> THEN s
             ELSE IF IsSpace(s[Len(s)]) THEN rstrip(SubSeq(s, 1, Len(s) - 1)) ELSE s

\* Mutant: only the leading whitespace is removed.
strip_leading(s) == lstrip(s)

strip(s) == rstrip(lstrip(s))

\* A validator yields [err, val]: err is TRUE when ValidationError is raised.
_validate_name(name) ==
    IF name.t # "str" THEN [err |-> TRUE, val |-> name]
    ELSE LET stripped == strip(name.s) IN
         IF stripped = <<>> THEN [err |-> TRUE, val |-> name]
         ELSE IF Len(stripped) > MAX_NAME_LENGHT THEN [err |-> TRUE, val |-> name]
         ELSE [err |-> FALSE, val |-> PyStr(stripped)]

\* Mutant: the upper bound is tested with >= instead of >.
_validate_quantity_offByOne(quantity) ==
    IF quantity.t \notin {"int", "bool"} THEN [err |-> TRUE, val |-> quantity]
    ELSE IF quantity.n < MIN_QUANTITY * Scale THEN [err |-> TRUE, val |-> quantity]
    ELSE IF quantity.n >= MAX_QUANTITY * Scale THEN [err |-> TRUE, val |-> quantity]
    ELSE [err |-> FALSE, val |-> quantity]

_validate_quantity(quantity) ==
    IF quantity.t \notin {"int", "bool"} THEN [err |-> TRUE, val |-> quantity]
    ELSE IF quantity.n < MIN_QUANTITY * Scale THEN [err |-> TRUE, val |-> quantity]
    ELSE IF quantity.n > MAX_QUANTITY * Scale THEN [err |-> TRUE, val |-> quantity]
    ELSE [err |-> FALSE, val |-> quantity]

_validate_price(price) ==
    IF price.t \notin {"float", "int", "bool"} THEN [err |-> TRUE, val |-> price]
    ELSE IF price.n < MIN_PRICE * Scale THEN [err |-> TRUE, val |-> price]
    ELSE IF price.n > MAX_PRICE * Scale THEN [err |-> TRUE, val |-> price]
    ELSE [err |-> FALSE, val |-> price]

\* Mutant: the name is kept as given instead of as validated.
InventoryItem_rawName(name, quantity, price, item_id) ==
    LET vn == _validate_name(name)
        vq == _validate_quantity(quantity)
        vp == _validate_price(price)
    IN [raised |-> IF vn.err \/ vq.err \/ vp.err THEN "ValidationError" ELSE "none",
        item_id |-> item_id,
        name |-> name,
        quantity |-> vq.val,
        price |-> vp.val]

\* InventoryItem.__init__: the three validators in order; the first failure raises.
InventoryItem(name, quantity, price, item_id) ==
    LET vn == _validate_name(name)
        vq == _validate_quantity(quantity)
        vp == _validate_price(price)
    IN [raised |-> IF vn.err \/ vq.err \/ vp.err THEN "ValidationError" ELSE "none",
        item_id |-> item_id,
        name |-> vn.val,
        quantity |-> vq.val,
        price |-> vp.val]

\* to_dict: the attributes under their keys; the updated_at attribute goes
\* under the key "update_at".
to_dict(item, created_at, updated_at) ==
    [item_id |-> item.item_id,
     name |-> item.name,
     quantity |-> item.quantity,
     price |-> item.price,
     created_at |-> created_at,
     update_at |-> updated_at]

\* --------------------------------------------------------- SQLite table
\* The inventory table is the sequence of its rows in rowid order.
NoRow == [item_id |-> 0, name |-> NoneName, quantity |-> NoneNum, price |-> NoneNum]

\* Column type affinity of the schema: a REAL column stores an integer as the
\* float of the same value, an INTEGER column stores an integral float as an
\* integer, a TEXT column keeps text.
RealAffinity(x) == IF x.t \in {"int", "bool"} THEN [t |-> "float", n |-> x.n] ELSE x
IntegerAffinity(x) == IF x.t = "bool" \/ (x.t = "float" /\ x.n % Scale = 0)
                      THEN [t |-> "int", n |-> x.n] ELSE x
TextAffinity(x) == x

Ids(tbl) == {tbl[k].item_id : k \in 1..Len(tbl)}

SetMax(S) == CHOOSE m \in S : \A x \in S : x <= m

\* Mutant: the smallest unused rowid is handed out, so the id of a deleted row
\* comes back below the ids of rows still stored.
NextRowid_lowest(tbl) == CHOOSE i \in 1..(Len(tbl) + 1) :
                             /\ i \notin Ids(tbl)
                             /\ \A j \in 1..(i - 1) : j \in Ids(tbl)

\* Mutant: the largest rowid is handed out again instead of the one after it.
NextRowid_stale(tbl) == IF tbl = <<>> THEN 1 ELSE SetMax(Ids(tbl))

\* item_id INTEGER PRIMARY KEY: an alias of the rowid; a row inserted without
\* one gets the largest rowid in the table plus one, 1 in an empty table.
NextRowid(tbl) == IF tbl = <<>> THEN 1 ELSE SetMax(Ids(tbl)) + 1

RECURSIVE PlaceRow(_, _)
PlaceRow(tbl, row) ==
    IF tbl = <<>> THEN <<row>>
    ELSE IF Head(tbl).item_id > row.item_id THEN <<row>> \o tbl
    ELSE <<Head(tbl)>> \o PlaceRow(Tail(tbl), row)

\* INSERT INTO inventory (name, quantity, price) VALUES (?, ?, ?)
SqlInsert(tbl, name, quantity, price) ==
    PlaceRow(tbl, [item_id |-> NextRowid(tbl),
                   name |-> TextAffinity(name),
                   quantity |-> IntegerAffinity(quantity),
                   price |-> RealAffinity(price)])

\* Mutant: the price column is guarded by the quantity argument.
SqlUpdateRow_wrongGuard(row, name, quantity, price) ==
    [item_id |-> row.item_id,
     name |-> IF IsNone(name) THEN row.name ELSE TextAffinity(name),
     quantity |-> IF IsNone(quantity) THEN row.quantity ELSE IntegerAffinity(quantity),
     price |-> IF IsNone(quantity) THEN row.price ELSE RealAffinity(price)]

\* UPDATE inventory SET <non-None columns> WHERE item_id = ?
SqlUpdateRow(row, name, quantity, price) ==
    [item_id |-> row.item_id,
     name |-> IF IsNone(name) THEN row.name ELSE TextAffinity(name),
     quantity |-> IF IsNone(quantity) THEN row.quantity ELSE IntegerAffinity(quantity),
     price |-> IF IsNone(price) THEN row.price ELSE RealAffinity(price)]

\* Mutant: the UPDATE has no WHERE clause.
SqlUpdate_noWhere(tbl, item_id, name, quantity, price) ==
    [k \in 1..Len(tbl) |-> SqlUpdateRow(tbl[k], name, quantity, price)]

SqlUpdate(tbl, item_id, name, quantity, price) ==
    [k \in 1..Len(tbl) |->
        IF tbl[k].item_id = item_id
        THEN SqlUpdateRow(tbl[k], name, quantity, price)
        ELSE tbl[k]]

RECURSIVE SqlDelete(_, _)
SqlDelete(tbl, item_id) ==
    IF tbl = <<>> THEN <<>>
    ELSE IF Head(tbl).item_id = item_id THEN SqlDelete(Tail(tbl), item_id)
    ELSE <<Head(tbl)>> \o SqlDelete(Tail(tbl), item_id)

\* rowcount of an UPDATE or DELETE ... WHERE item_id = ?
Matching(tbl, item_id) == Cardinality({k \in 1..Len(tbl) : tbl[k].item_id = item_id})

\* SELECT ... WHERE item_id = ?  followed by fetchone()
SqlSelectOne(tbl, item_id) ==
    IF \E k \in 1..Len(tbl) : tbl[k].item_id = item_id
    THEN tbl[CHOOSE k \in 1..Len(tbl) :
                 /\ tbl[k].item_id = item_id
                 /\ \A j \in 1..(k - 1) : tbl[j].item_id # item_id]
    ELSE NoRow

\* --------------------------------------------------- Persistence Session
\* What the body of a `with DatabaseSession(...)` block did: the table as its
\* statements left it, the exception it raised ("none" if it returned), the
\* number of write statements it executed, the rowcount of the last one, and
\* the value it returned (a bool, a row/item, or a list of rows).
Body(tbl, raised, writes, rowcount, retBool, retRow, retList) ==
    [table |-> tbl, raised |-> raised, writes |-> writes, rowcount |-> rowcount,
     retBool |-> retBool, retRow |-> retRow, retList |-> retList]

\* One session around one body: acquired on entry; on exit the work is
\* committed if the body ended normally and rolled back if it raised, and
\* the connection is released on both paths.
DatabaseSession(tbl, body) ==
    [table |-> IF body.raised = "none" THEN body.table ELSE tbl,
     raised |-> body.raised, writes |-> body.writes, rowcount |-> body.rowcount,
     retBool |-> body.retBool, retRow |-> body.retRow, retList |-> body.retList,
     session |-> [acquired |-> 1,
                  finish |-> IF body.raised = "none" THEN "commit" ELSE "rollback",
                  open |-> 0]]

\* ------------------------------------------------------- Inventory Store
_init_db(tbl) ==
    DatabaseSession(tbl, Body(tbl, "none", 0, 0, FALSE, NoRow, <<>>))

add_item(tbl, name, quantity, price) ==
    LET inserted == SqlInsert(tbl, name, quantity, price)
        new_id == NextRowid(tbl)
        item == InventoryItem(name, quantity, price, new_id)
    IN DatabaseSession(tbl,
           Body(inserted, item.raised, 1, 1, FALSE,
                IF item.raised = "none"
                THEN [item_id |-> item.item_id, name |-> item.name,
                      quantity |-> item.quantity, price |-> item.price]
                ELSE NoRow,
                <<>>))

get_all_items_data(tbl) ==
    DatabaseSession(tbl, Body(tbl, "none", 0, 0, FALSE, NoRow, tbl))

\* Mutant: the result is rowcount >= 0 instead of rowcount > 0.
update_item_anyRowcount(tbl, item_id, name, quantity, price) ==
    LET updates == {c \in {"name", "quantity", "price"} :
                       \/ c = "name" /\ ~IsNone(name)
                       \/ c = "quantity" /\ ~IsNone(quantity)
                       \/ c = "price" /\ ~IsNone(price)}
        rowcount == Matching(tbl, item_id)
    IN DatabaseSession(tbl,
           IF updates = {}
           THEN Body(tbl, "none", 0, 0, FALSE, NoRow, <<>>)
           ELSE Body(SqlUpdate(tbl, item_id, name, quantity, price),
                     "none", 1, rowcount, rowcount >= 0, NoRow, <<>>))

\* Mutant: the early return for "nothing to update" leaves the function
\* without going through the session's exit.
update_item_leak(tbl, item_id, name, quantity, price) ==
    LET updates == {c \in {"name", "quantity", "price"} :
                       \/ c = "name" /\ ~IsNone(name)
                       \/ c = "quantity" /\ ~IsNone(quantity)
                       \/ c = "price" /\ ~IsNone(price)}
        rowcount == Matching(tbl, item_id)
    IN IF updates = {}
       THEN [table |-> tbl, raised |-> "none", writes |-> 0, rowcount |-> 0,
             retBool |-> FALSE, retRow |-> NoRow, retList |-> <<>>,
             session |-> [acquired |-> 1, finish |-> "none", open |-> 1]]
       ELSE DatabaseSession(tbl,
                Body(SqlUpdate(tbl, item_id, name, quantity, price),
                     "none", 1, rowcount, rowcount > 0, NoRow, <<>>))

update_item(tbl, item_id, name, quantity, price) ==
    LET updates == {c \in {"name", "quantity", "price"} :
                       \/ c = "name" /\ ~IsNone(name)
                       \/ c = "quantity" /\ ~IsNone(quantity)
                       \/ c = "price" /\ ~IsNone(price)}
        rowcount == Matching(tbl, item_id)
    IN DatabaseSession(tbl,
           IF updates = {}
           THEN Body(tbl, "none", 0, 0, FALSE, NoRow, <<>>)
           ELSE Body(SqlUpdate(tbl, item_id, name, quantity, price),
                     "none", 1, rowcount, rowcount > 0, NoRow, <<>>))

\* Mutant: the result is rowcount >= 0 instead of rowcount > 0.
delete_item_anyRowcount(tbl, item_id) ==
    LET rowcount == Matching(tbl, item_id)
    IN DatabaseSession(tbl,
           Body(SqlDelete(tbl, item_id), "none", 1, rowcount, rowcount >= 0, NoRow, <<>>))

delete_item(tbl, item_id) ==
    LET rowcount == Matching(tbl, item_id)
    IN DatabaseSession(tbl,
           Body(SqlDelete(tbl, item_id), "none", 1, rowcount, rowcount > 0, NoRow, <<>>))

get_item(tbl, item_id) ==
    DatabaseSession(tbl, Body(tbl, "none", 0, 0, FALSE, SqlSelectOne(tbl, item_id), <<>>))

\* ---------------------------------------------------------------- inputs
\* Names offered to Update, and to Create together with the empty name.
NameInputs == {PyStr(<<"a">>), PyStr(<<" ", "a", " ">>)}
CreateNameInputs == NameInputs \cup {PyStr(<<>>)}
QuantityInputs == {PyInt(5), PyInt(-1)}
PriceInputs == {PyFloat(1850), PyInt(0)}
ItemIds == 1..MaxId

\* ----------------------------------------------------------------- state
VARIABLES
    table,      \* the committed rows of the inventory table, in rowid order
    last,       \* the last operation: its arguments and what it returned
    issued,     \* history: the largest item_id any Create has returned
    live,       \* history: ids created and not deleted since, in creation order
    calls,      \* the calls of concurrent callers that are in progress
    store       \* the store object: which InventoryManager, and how its
                \* construction went

vars == <<table, last, issued, live, calls, store>>

\* InventoryManager.__init__ of src/src/manager.py: _init_db runs in a
\* session with nothing around it, so a storage failure leaves the
\* constructor as an exception and no store object exists.
manager__init__(fail) ==
    [variant |-> "manager", initRaised |-> fail, constructed |-> ~fail]

\* The CREATE TABLE text of src/main.py has no comma between the quantity
\* and price columns: SQLite rejects it with a syntax error.
main_schema_sql_ok == FALSE

\* InventoryManager.__init__ of src/main.py: _init_db catches sqlite3.Error
\* and prints it, so the constructor returns a store object either way.
main__init__(fail) ==
    [variant |-> "main", initRaised |-> fail \/ ~main_schema_sql_ok,
     constructed |-> TRUE]

Call(op, item_id, name, quantity, price, r) ==
    [op |-> op, item_id |-> item_id, name |-> name, quantity |-> quantity,
     price |-> price, raised |-> r.raised, writes |-> r.writes,
     rowcount |-> r.rowcount, retBool |-> r.retBool, retRow |-> r.retRow,
     retList |-> r.retList, session |-> r.session]

RECURSIVE Without(_, _)
Without(seq, x) ==
    IF seq = <<>> THEN <<>>
    ELSE IF Head(seq) = x THEN Without(Tail(seq), x)
    ELSE <<Head(seq)>> \o Without(Tail(seq), x)

\* InventoryManager(): the store after construction on a fresh database.
Init ==
    /\ table = _init_db(<<>>).table
    /\ last = Call("_init_db", 0, NoneName, NoneNum, NoneNum, _init_db(<<>>))
    /\ issued = 0
    /\ live = <<>>
    /\ calls = <<>>
    /\ store = manager__init__(FALSE)

AddItem ==
    \E name \in CreateNameInputs, quantity \in QuantityInputs, price \in PriceInputs :
        LET r == add_item(table, name, quantity, price) IN
        /\ Len(table) < MaxRows
        /\ NextRowid(table) <= MaxId
        /\ table' = r.table
        /\ last' = Call("add_item", 0, name, quantity, price, r)
        /\ issued' = IF r.raised = "none" /\ r.retRow.item_id > issued
                     THEN r.retRow.item_id ELSE issued
        /\ live' = IF r.raised = "none" THEN Append(live, r.retRow.item_id) ELSE live
        /\ UNCHANGED <<calls, store>>

GetAllItemsData ==
    LET r == get_all_items_data(table) IN
    /\ table' = r.table
    /\ last' = Call("get_all_items_data", 0, NoneName, NoneNum, NoneNum, r)
    /\ UNCHANGED <<issued, live, calls, store>>

UpdateItem ==
    \E item_id \in ItemIds,
       name \in NameInputs \cup {NoneName},
       quantity \in QuantityInputs \cup {NoneNum},
       price \in PriceInputs \cup {NoneNum} :
        LET r == update_item(table, item_id, name, quantity, price) IN
        /\ table' = r.table
        /\ last' = Call("update_item", item_id, name, quantity, price, r)
        /\ UNCHANGED <<issued, live, calls, store>>

DeleteItem ==
    \E item_id \in ItemIds :
        LET r == delete_item(table, item_id) IN
        /\ table' = r.table
        /\ last' = Call("delete_item", item_id, NoneName, NoneNum, NoneNum, r)
        /\ live' = IF r.retBool THEN Without(live, item_id) ELSE live
        /\ UNCHANGED <<issued, calls, store>>

GetItem ==
    \E item_id \in ItemIds :
        LET r == get_item(table, item_id) IN
        /\ table' = r.table
        /\ last' = Call("get_item", item_id, NoneName, NoneNum, NoneNum, r)
        /\ UNCHANGED <<issued, live, calls, store>>

Next ==
    \/ AddItem
    \/ GetAllItemsData
    \/ UpdateItem
    \/ DeleteItem
    \/ GetItem

Spec == Init /\ [][Next]_vars

\* ------------------------------------------------------ concurrent callers
\* Each caller runs one store operation at a time, statement by statement:
\* it enters its session, executes its one SQL statement, and leaves the
\* session, which commits.  SQLite lets one connection write at a time; a
\* second writer, and a commit that meets a reader, fail with "database is
\* locked", and the session rolls back.  A SELECT reads committed rows only.
NumCallers == 2
Callers == 1..NumCallers

ConcUpdates == {<<PyStr(<<" ", "a", " ">>), NoneNum, PyInt(0)>>,
                <<PyStr(<<"a">>), PyInt(-1), PyFloat(1850)>>,
                <<NoneName, PyInt(-1), NoneNum>>}

IdleCall == [pc |-> "idle", op |-> "none", item_id |-> 0, name |-> NoneName,
             quantity |-> NoneNum, price |-> NoneNum, work |-> <<>>,
             rowcount |-> 0, retBool |-> FALSE, retRow |-> NoRow,
             retList |-> <<>>, raised |-> "none"]

WriteLocked(c) == \E d \in Callers \ {c} :
                      calls[d].pc = "executed" /\ calls[d].op = "update_item"

ReadLocked(c) == \E d \in Callers \ {c} :
                     calls[d].pc = "executed" /\ calls[d].op # "update_item"

\* A store with one item, and nobody calling.
InitConc ==
    /\ table = add_item(_init_db(<<>>).table, PyStr(<<"a">>), PyInt(5), PyFloat(1850)).table
    /\ last = Call("_init_db", 0, NoneName, NoneNum, NoneNum, _init_db(<<>>))
    /\ issued = 1
    /\ live = <<1>>
    /\ calls = [c \in Callers |-> IdleCall]
    /\ store = manager__init__(FALSE)

\* with DatabaseSession(self.db_name) as conn: of update_item
EnterUpdate(c) ==
    \E u \in ConcUpdates :
        /\ calls[c].pc \in {"idle", "returned"}
        /\ calls' = [calls EXCEPT ![c] =
                        [IdleCall EXCEPT !.pc = "entered", !.op = "update_item",
                                         !.item_id = 1, !.name = u[1],
                                         !.quantity = u[2], !.price = u[3]]]
        /\ UNCHANGED <<table, last, issued, live, store>>

\* with DatabaseSession(self.db_name) as conn: of get_item
EnterRead(c) ==
    /\ calls[c].pc \in {"idle", "returned"}
    /\ calls' = [calls EXCEPT ![c] =
                    [IdleCall EXCEPT !.pc = "entered", !.op = "get_item", !.item_id = 1]]
    /\ UNCHANGED <<table, last, issued, live, store>>

\* with DatabaseSession(self.db_name) as conn: of get_all_items_data
EnterReadAll(c) ==
    /\ calls[c].pc \in {"idle", "returned"}
    /\ calls' = [calls EXCEPT ![c] =
                    [IdleCall EXCEPT !.pc = "entered", !.op = "get_all_items_data"]]
    /\ UNCHANGED <<table, last, issued, live, store>>

\* cursor.execute(sql_command, tuple(params)): the one UPDATE, in the
\* caller's own transaction.
ExecuteUpdate(c) ==
    /\ calls[c].pc = "entered" /\ calls[c].op = "update_item"
    /\ ~WriteLocked(c)
    /\ LET r == update_item(table, calls[c].item_id, calls[c].name,
                            calls[c].quantity, calls[c].price) IN
       calls' = [calls EXCEPT ![c].pc = "executed", ![c].work = r.table,
                              ![c].rowcount = r.rowcount, ![c].retBool = r.retBool]
    /\ UNCHANGED <<table, last, issued, live, store>>

\* cursor.execute(...) raising sqlite3.OperationalError: another connection
\* holds the write lock.  The session rolls back and the error propagates.
ExecuteBusy(c) ==
    /\ calls[c].pc = "entered" /\ calls[c].op = "update_item"
    /\ WriteLocked(c)
    /\ calls' = [calls EXCEPT ![c].pc = "returned", ![c].raised = "OperationalError"]
    /\ UNCHANGED <<table, last, issued, live, store>>

\* cursor.execute('SELECT * ...'); cursor.fetchone()
ExecuteRead(c) ==
    /\ calls[c].pc = "entered" /\ calls[c].op = "get_item"
    /\ calls' = [calls EXCEPT ![c].pc = "executed",
                              ![c].retRow = get_item(table, calls[c].item_id).retRow]
    /\ UNCHANGED <<table, last, issued, live, store>>

\* cursor.execute("SELECT item_id, name, quantity, price ..."); fetchall()
ExecuteReadAll(c) ==
    /\ calls[c].pc = "entered" /\ calls[c].op = "get_all_items_data"
    /\ calls' = [calls EXCEPT ![c].pc = "executed",
                              ![c].retList = get_all_items_data(table).retList]
    /\ UNCHANGED <<table, last, issued, live, store>>

\* Leaving the with block: the session commits and releases the connection.
ExitCommit(c) ==
    /\ calls[c].pc = "executed"
    /\ table' = IF calls[c].op = "update_item" THEN calls[c].work ELSE table
    /\ calls' = [calls EXCEPT ![c].pc = "returned"]
    /\ UNCHANGED <<last, issued, live, store>>

\* Leaving the with block while a reader holds the database: the commit
\* fails, the work is rolled back and the error propagates.
ExitBusy(c) ==
    /\ calls[c].pc = "executed" /\ calls[c].op = "update_item"
    /\ ReadLocked(c)
    /\ calls' = [calls EXCEPT ![c].pc = "returned", ![c].raised = "OperationalError",
                              ![c].retBool = FALSE]
    /\ UNCHANGED <<table, last, issued, live, store>>

NextConc ==
    \E c \in Callers :
        \/ EnterUpdate(c)
        \/ EnterRead(c)
        \/ EnterReadAll(c)
        \/ ExecuteUpdate(c)
        \/ ExecuteBusy(c)
        \/ ExecuteRead(c)
        \/ ExecuteReadAll(c)
        \/ ExitCommit(c)
        \/ ExitBusy(c)

SpecConc == InitConc /\ [][NextConc]_vars

\* ------------------------------------------------------ item model alone
\* The validators and the constructor applied to one input each.
Repeat(c, n) == [i \in 1..n |-> c]

RECURSIVE Strings(_)
Strings(n) ==
    IF n = 0 THEN {<<>>}
    ELSE Strings(n - 1) \cup
         {Append(w, c) : w \in {v \in Strings(n - 1) : Len(v) = n - 1},
                         c \in {"a", " ", "\t"}}

LongNames == {Repeat("a", MAX_NAME_LENGHT),
              Repeat("a", MAX_NAME_LENGHT + 1),
              <<" ">> \o Repeat("a", MAX_NAME_LENGHT) \o <<"\n">>,
              <<" ">> \o Repeat("a", MAX_NAME_LENGHT + 1)}

ModelNames == {PyStr(w) : w \in Strings(MaxNameLen) \cup LongNames}
                  \cup {NoneName, [t |-> "int", s |-> <<>>]}

ModelQuantities == {PyInt(-1), PyInt(0), PyInt(1), PyInt(MAX_QUANTITY),
                    PyInt(MAX_QUANTITY + 1), PyFloat(500), PyFloat(550),
                    [t |-> "bool", n |-> Scale], [t |-> "str", n |-> 0], NoneNum}

ModelPrices == {PyInt(-1), PyInt(0), PyInt(MAX_PRICE), PyInt(MAX_PRICE + 1),
                PyFloat(-1), PyFloat(0), PyFloat(1850), PyFloat(MAX_PRICE * Scale),
                PyFloat(MAX_PRICE * Scale + 1),
                [t |-> "bool", n |-> Scale], [t |-> "str", n |-> 0], NoneNum}

Stamps == {NoneName, PyStr(<<"t">>)}

Applied(op, name, quantity, price, item_id, created_at, updated_at, err, vname, vnum, dict) ==
    [op |-> op, name |-> name, quantity |-> quantity, price |-> price,
     item_id |-> item_id, created_at |-> created_at, updated_at |-> updated_at,
     err |-> err, vname |-> vname, vnum |-> vnum, dict |-> dict]

NoDict == to_dict(NoRow, NoneName, NoneName)

\* The arguments of one call, not yet applied.
InitModel ==
    /\ \E name \in ModelNames, quantity \in ModelQuantities, price \in ModelPrices :
          last = Applied("input", name, quantity, price, NoneNum, NoneName, NoneName,
                         FALSE, NoneName, NoneNum, NoDict)
    /\ table = <<>>
    /\ issued = 0
    /\ live = <<>>
    /\ calls = <<>>
    /\ store = manager__init__(FALSE)

ValidateName ==
    /\ last.op = "input"
    /\ LET v == _validate_name(last.name) IN
       last' = [last EXCEPT !.op = "_validate_name", !.err = v.err, !.vname = v.val]
    /\ UNCHANGED <<table, issued, live, calls, store>>

ValidateQuantity ==
    /\ last.op = "input"
    /\ LET v == _validate_quantity(last.quantity) IN
       last' = [last EXCEPT !.op = "_validate_quantity", !.err = v.err, !.vnum = v.val]
    /\ UNCHANGED <<table, issued, live, calls, store>>

ValidatePrice ==
    /\ last.op = "input"
    /\ LET v == _validate_price(last.price) IN
       last' = [last EXCEPT !.op = "_validate_price", !.err = v.err, !.vnum = v.val]
    /\ UNCHANGED <<table, issued, live, calls, store>>

\* InventoryItem(name, quantity, price, item_id, created_at, updated_at)
\* followed, when it did not raise, by to_dict().
Construct ==
    \E item_id \in {NoneNum, PyInt(1)}, created_at \in Stamps, updated_at \in Stamps :
        /\ last.op = "input"
        /\ LET item == InventoryItem(last.name, last.quantity, last.price, item_id) IN
           last' = [last EXCEPT
                       !.op = "InventoryItem", !.item_id = item_id,
                       !.created_at = created_at, !.updated_at = updated_at,
                       !.err = item.raised # "none",
                       !.dict = IF item.raised = "none"
                                THEN to_dict(item, created_at, updated_at)
                                ELSE NoDict]
        /\ UNCHANGED <<table, issued, live, calls, store>>

NextModel ==
    \/ ValidateName
    \/ ValidateQuantity
    \/ ValidatePrice
    \/ Construct

SpecModel == InitModel /\ [][NextModel]_vars

\* ------------------------------------------------------ store construction
\* add_item of src/main.py: INSERT and commit on the kept connection, then a
\* plain (non-validating) InventoryItem.  Without the table the INSERT raises.
main_add_item(tbl, schema, name, quantity, price) ==
    IF schema
    THEN [table |-> SqlInsert(tbl, name, quantity, price), raised |-> "none",
          writes |-> 1, rowcount |-> 1, retBool |-> FALSE,
          retRow |-> [item_id |-> NextRowid(tbl), name |-> name,
                      quantity |-> quantity, price |-> price],
          retList |-> <<>>,
          session |-> [acquired |-> 0, finish |-> "commit", open |-> 0]]
    ELSE [table |-> tbl, raised |-> "OperationalError",
          writes |-> 0, rowcount |-> 0, retBool |-> FALSE, retRow |-> NoRow,
          retList |-> <<>>,
          session |-> [acquired |-> 0, finish |-> "none", open |-> 0]]

\* Either InventoryManager is constructed on a fresh database, and the
\* datastore may fail while the schema is created.
InitStore ==
    /\ table = <<>>
    /\ \E fail \in BOOLEAN : store \in {manager__init__(fail), main__init__(fail)}
    /\ last = Call("__init__", 0, NoneName, NoneNum, NoneNum, _init_db(<<>>))
    /\ issued = 0
    /\ live = <<>>
    /\ calls = <<>>

\* Any operation of the src/src/manager.py store, once it exists.
ManagerServe ==
    /\ store.variant = "manager"
    /\ store.constructed
    /\ Next

\* add_item of the src/main.py store, once it exists.
MainAddItem ==
    \E name \in CreateNameInputs, quantity \in QuantityInputs, price \in PriceInputs :
        LET r == main_add_item(table, ~store.initRaised, name, quantity, price) IN
        /\ store.variant = "main"
        /\ store.constructed
        /\ Len(table) < MaxRows
        /\ NextRowid(table) <= MaxId
        /\ table' = r.table
        /\ last' = Call("add_item", 0, name, quantity, price, r)
        /\ UNCHANGED <<issued, live, calls, store>>

NextStore ==
    \/ ManagerServe
    \/ MainAddItem

SpecStore == InitStore /\ [][NextStore]_vars

\* ------------------------------------------------------- Request Handlers
\* A response: the HTTP status code, the "status" member of the JSON body,
\* whether the body has a "message", whether it has a payload (the item or
\* the inventory), and the exception that left the handler ("none" if the
\* handler returned).  A jsonify(...) returned without a code is a 200.
Response(code, status, message, payload) ==
    [code |-> code, status |-> status, message |-> message, payload |-> payload,
     escaped |-> "none"]

\* An exception leaves the view function: the framework answers 500 itself.
Escaped(exc) ==
    [code |-> 500, status |-> "none", message |-> FALSE, payload |-> FALSE,
     escaped |-> exc]

\* A store call during which the datastore raises sqlite3.OperationalError:
\* the session rolls back and the error propagates.
StorageFailure(tbl, r) ==
    [r EXCEPT !.table = tbl, !.raised = "OperationalError", !.retBool = FALSE,
              !.retRow = NoRow, !.retList = <<>>,
              !.session = [acquired |-> 1, finish |-> "rollback", open |-> 0]]

Store(tbl, r, fail) == IF fail THEN StorageFailure(tbl, r) ELSE r

\* Python truthiness of a JSON value: None, 0, 0.0, False and "" are falsy.
Truthy(x) ==
    CASE x.t = "none" -> FALSE
      [] x.t = "str" -> IF "s" \in DOMAIN x THEN x.s # <<>> ELSE TRUE
      [] OTHER -> x.n # 0

\* int(x): a float is truncated, text that is not a number raises ValueError.
PyIntConv(x) ==
    CASE x.t = "str" -> [err |-> TRUE, val |-> x]
      [] x.t = "float" -> [err |-> FALSE,
                           val |-> [t |-> "int",
                                    n |-> IF x.n >= 0 THEN x.n - (x.n % Scale)
                                          ELSE -((-x.n) - ((-x.n) % Scale))]]
      [] OTHER -> [err |-> FALSE, val |-> [t |-> "int", n |-> x.n]]

\* float(x): text that is not a number raises ValueError.
PyFloatConv(x) ==
    CASE x.t = "str" -> [err |-> TRUE, val |-> x]
      [] OTHER -> [err |-> FALSE, val |-> [t |-> "float", n |-> x.n]]

\* The outcome of a handler: its response and the table it leaves.
Handled(resp, tbl) == [resp |-> resp, table |-> tbl]

get_inventory(tbl, fail) ==
    LET r == Store(tbl, get_all_items_data(tbl), fail) IN
    IF r.raised = "none"
    THEN Handled(Response(200, "success", FALSE, TRUE), r.table)
    ELSE Handled(Response(500, "error", TRUE, FALSE), r.table)

add_item_api(tbl, name, quantity, price, fail) ==
    IF IsNone(name) /\ IsNone(quantity) /\ IsNone(price)
    THEN Handled(Response(400, "error", TRUE, FALSE), tbl)
    ELSE IF ~Truthy(name) THEN Handled(Response(400, "error", TRUE, FALSE), tbl)
    ELSE IF ~Truthy(quantity) THEN Handled(Response(400, "error", TRUE, FALSE), tbl)
    ELSE IF ~Truthy(price) THEN Handled(Response(400, "error", TRUE, FALSE), tbl)
    ELSE IF \/ _validate_name(name).err
            \/ _validate_quantity(quantity).err
            \/ _validate_price(price).err
         THEN Handled(Response(200, "error", TRUE, FALSE), tbl)
    ELSE LET r == Store(tbl, add_item(tbl, name, quantity, price), fail) IN
         IF r.raised = "none"
         THEN Handled(Response(201, "success", TRUE, FALSE), r.table)
         ELSE Handled(Response(500, "error", TRUE, FALSE), r.table)

update_item_api(tbl, item_id, name, quantity, price, fail) ==
    IF IsNone(name) /\ IsNone(quantity) /\ IsNone(price)
    THEN Handled(Response(400, "error", TRUE, FALSE), tbl)
    ELSE LET q == IF IsNone(quantity) THEN [err |-> FALSE, val |-> NoneNum]
                  ELSE PyIntConv(quantity)
             p == IF IsNone(price) THEN [err |-> FALSE, val |-> NoneNum]
                  ELSE PyFloatConv(price)
         IN IF q.err \/ p.err
            THEN Handled(Response(400, "error", TRUE, FALSE), tbl)
            ELSE LET r == Store(tbl, update_item(tbl, item_id, name, q.val, p.val), fail) IN
                 IF r.raised # "none"
                 THEN Handled(Response(500, "error", TRUE, FALSE), r.table)
                 ELSE IF r.retBool
                 THEN Handled(Response(200, "success", TRUE, FALSE), r.table)
                 ELSE Handled(Response(404, "error", TRUE, FALSE), r.table)

\* The except branch builds jsonify({{...}}): a set holding a dict, which
\* raises TypeError before any response exists.
delete_item_api(tbl, item_id, fail) ==
    LET r == Store(tbl, delete_item(tbl, item_id), fail) IN
    IF r.raised # "none" THEN Handled(Escaped("TypeError"), r.table)
    ELSE IF r.retBool THEN Handled(Response(200, "success", TRUE, FALSE), r.table)
    ELSE Handled(Response(404, "error", TRUE, FALSE), r.table)

get_item_api(tbl, item_id, fail) ==
    LET r == Store(tbl, get_item(tbl, item_id), fail) IN
    IF r.raised # "none" THEN Handled(Response(404, "error", TRUE, FALSE), r.table)
    ELSE IF r.retRow = NoRow THEN Handled(Response(404, "error", TRUE, FALSE), r.table)
    ELSE Handled(Response(200, "success", FALSE, TRUE), r.table)

\* JSON members offered in request bodies; a none is a member left out.
ApiNames == {NoneName, PyStr(<<"a">>), PyStr(<<" ", "a", " ">>)}
ApiQuantities == {NoneNum, PyInt(5), PyInt(0), PyInt(-1), [t |-> "str", n |-> 0]}
ApiPrices == {NoneNum, PyFloat(1850), PyInt(0)}

Request(op, item_id, name, quantity, price, fail, h) ==
    [op |-> op, item_id |-> item_id, name |-> name, quantity |-> quantity,
     price |-> price, fail |-> fail, resp |-> h.resp]

\* The module-level inventory_manager = InventoryManager() of the API.
InitApi ==
    /\ table = _init_db(<<>>).table
    /\ last = Request("_init_db", 0, NoneName, NoneNum, NoneNum, FALSE,
                      Handled(Response(0, "none", FALSE, FALSE), <<>>))
    /\ issued = 0
    /\ live = <<>>
    /\ calls = <<>>
    /\ store = manager__init__(FALSE)

GetInventory ==
    \E fail \in BOOLEAN :
        LET h == get_inventory(table, fail) IN
        /\ table' = h.table
        /\ last' = Request("get_inventory", 0, NoneName, NoneNum, NoneNum, fail, h)
        /\ UNCHANGED <<issued, live, calls, store>>

AddItemApi ==
    \E name \in ApiNames, quantity \in ApiQuantities, price \in ApiPrices,
       fail \in BOOLEAN :
        LET h == add_item_api(table, name, quantity, price, fail) IN
        /\ Len(table) < MaxRows
        /\ NextRowid(table) <= MaxId
        /\ table' = h.table
        /\ last' = Request("add_item_api", 0, name, quantity, price, fail, h)
        /\ UNCHANGED <<issued, live, calls, store>>

UpdateItemApi ==
    \E item_id \in ItemIds, name \in ApiNames, quantity \in ApiQuantities,
       price \in ApiPrices, fail \in BOOLEAN :
        LET h == update_item_api(table, item_id, name, quantity, price, fail) IN
        /\ table' = h.table
        /\ last' = Request("update_item_api", item_id, name, quantity, price, fail, h)
        /\ UNCHANGED <<issued, live, calls, store>>

DeleteItemApi ==
    \E item_id \in ItemIds, fail \in BOOLEAN :
        LET h == delete_item_api(table, item_id, fail) IN
        /\ table' = h.table
        /\ last' = Request("delete_item_api", item_id, NoneName, NoneNum, NoneNum, fail, h)
        /\ UNCHANGED <<issued, live, calls, store>>

GetItemApi ==
    \E item_id \in ItemIds, fail \in BOOLEAN :
        LET h == get_item_api(table, item_id, fail) IN
        /\ table' = h.table
        /\ last' = Request("get_item_api", item_id, NoneName, NoneNum, NoneNum, fail, h)
        /\ UNCHANGED <<issued, live, calls, store>>

NextApi ==
    \/ GetInventory
    \/ AddItemApi
    \/ UpdateItemApi
    \/ DeleteItemApi
    \/ GetItemApi

SpecApi == InitApi /\ [][NextApi]_vars

\* ------------------------------------------------------------ properties
IdSeq(tbl) == [k \in 1..Len(tbl) |-> tbl[k].item_id]

NoDuplicates(seq) == \A i, j \in 1..Len(seq) : i # j => seq[i] # seq[j]

Provided(call) == ~IsNone(call.name) \/ ~IsNone(call.quantity) \/ ~IsNone(call.price)

\* The four field rules of a persisted item.
RowValid(row) ==
    /\ row.name.t = "str"
    /\ row.name.s # <<>>
    /\ Len(row.name.s) <= MAX_NAME_LENGHT
    /\ strip(row.name.s) = row.name.s
    /\ row.quantity.t = "int"
    /\ row.quantity.n >= 0
    /\ row.quantity.n <= MAX_QUANTITY * Scale
    /\ row.price.t \in {"int", "float"}
    /\ row.price.n >= 0
    /\ row.price.n <= MAX_PRICE * Scale

\* C1: after any sequence of Create, Update and Delete every stored row
\* satisfies all four field rules (name trimmed, non-empty, at most 255
\* characters; quantity and price within 0..1,000,000).
C1_EveryRowValid == \A k \in 1..Len(table) : RowValid(table[k])

\* C2: every successful Create returns an item_id strictly greater than
\* every item_id an earlier Create returned, deleted items included.
C2_IdsStrictlyIncrease ==
    [][(last'.op = "add_item" /\ last'.raised = "none")
          => last'.retRow.item_id > issued]_vars

\* C3: a Create that fails validation raises before any write statement is
\* issued, and leaves the store contents as they were.
C3_ValidationBeforeAnyWrite ==
    [][(last'.op = "add_item" /\ last'.raised = "ValidationError")
          => (last'.writes = 0 /\ table' = table)]_vars

\* C4: reading a just-created item by the returned item_id yields the name,
\* quantity and price of the item that Create returned.
C4_ReadBackEqualsCreated ==
    (last.op = "add_item" /\ last.raised = "none")
        => LET row == get_item(table, last.retRow.item_id).retRow IN
           /\ row # NoRow
           /\ PyEq(row.name, last.retRow.name)
           /\ PyEq(row.quantity, last.retRow.quantity)
           /\ PyEq(row.price, last.retRow.price)

\* C5: an Update of an existing item with at least one field supplied gives
\* exactly the supplied fields the supplied values and leaves every field
\* not supplied at its previous stored value.
C5_UpdateChangesOnlySupplied ==
    [][(last'.op = "update_item" /\ last'.item_id \in Ids(table) /\ Provided(last'))
          => LET before == SqlSelectOne(table, last'.item_id)
                 after == SqlSelectOne(table', last'.item_id)
             IN /\ after.item_id = last'.item_id
                /\ IF IsNone(last'.name) THEN after.name = before.name
                                          ELSE PyEq(after.name, last'.name)
                /\ IF IsNone(last'.quantity) THEN after.quantity = before.quantity
                                              ELSE PyEq(after.quantity, last'.quantity)
                /\ IF IsNone(last'.price) THEN after.price = before.price
                                           ELSE PyEq(after.price, last'.price)]_vars

\* C5 witness: an Update that supplied only a price has returned true.
C5_Witness ==
    /\ last.op = "update_item" /\ last.retBool
    /\ IsNone(last.name) /\ IsNone(last.quantity) /\ last.price = PyInt(0)
    /\ SqlSelectOne(table, last.item_id).price = PyFloat(0)
    /\ SqlSelectOne(table, last.item_id).quantity = PyInt(5)

\* C6: Update returns true iff the row exists and at least one field is
\* provided, and then exactly one row is modified; when it returns false the
\* store contents are unchanged.
C6_UpdateResult ==
    [][last'.op = "update_item"
          => /\ last'.retBool <=> (last'.item_id \in Ids(table) /\ Provided(last'))
             /\ last'.retBool
                   => /\ last'.rowcount = 1
                      /\ Len(table') = Len(table)
                      /\ \A k \in 1..Len(table) :
                            table[k].item_id # last'.item_id => table'[k] = table[k]
             /\ ~last'.retBool => table' = table]_vars

\* C6 witness: an Update of one of two stored rows has returned true.
C6_Witness ==
    /\ last.op = "update_item" /\ last.retBool /\ last.rowcount = 1
    /\ Len(table) = 2

\* C7: Delete returns true iff the row existed just before the call; after a
\* Delete that returned true ReadOne finds nothing; a Delete of a nonexistent
\* item_id returns false and leaves the store unchanged.
C7_DeleteResult ==
    [][last'.op = "delete_item"
          => /\ last'.retBool <=> (last'.item_id \in Ids(table))
             /\ last'.retBool => get_item(table', last'.item_id).retRow = NoRow
             /\ ~last'.retBool => table' = table]_vars

\* C7 witness: a Delete has returned true and another row is still stored.
C7_Witness ==
    /\ last.op = "delete_item" /\ last.retBool
    /\ Len(table) = 1
    /\ get_item(table, last.item_id).retRow = NoRow

\* C8: ReadAll returns exactly the items created and not yet deleted, each
\* once, in creation order; the empty sequence for an empty store.
C8_ReadAllInCreationOrder ==
    last.op = "get_all_items_data"
        => /\ IdSeq(last.retList) = live
           /\ NoDuplicates(IdSeq(last.retList))
           /\ last.retList = table

\* C8 witness: items 1 and 2 were created, item 1 deleted, and ReadAll has
\* returned the one remaining item, item 2.
C8_Witness ==
    /\ last.op = "get_all_items_data"
    /\ issued = 2
    /\ IdSeq(last.retList) = <<2>>

\* C9: no two stored items share an item_id, and no operation changes the
\* item_id of a stored item: reads and Update keep the ids as they are,
\* Delete only removes the addressed id, Create only adds one.
C9_IdsUniqueAndImmutable ==
    [][/\ NoDuplicates(IdSeq(table'))
       /\ CASE last'.op = "delete_item"
                  -> IdSeq(table') = Without(IdSeq(table), last'.item_id)
            [] last'.op = "add_item"
                  -> /\ Len(table') >= Len(table)
                     /\ SubSeq(IdSeq(table'), 1, Len(table)) = IdSeq(table)
            [] OTHER
                  -> IdSeq(table') = IdSeq(table)]_vars

\* C9 witness: an Update has changed a row while two rows are stored.
C9_Witness ==
    /\ last.op = "update_item" /\ last.retBool
    /\ IdSeq(table) = <<1, 2>>
    /\ last.item_id = 1
    /\ ~IsNone(last.name) /\ ~IsNone(last.quantity) /\ ~IsNone(last.price)

SessionFinished ==
    /\ last.session.acquired = 1
    /\ last.session.open = 0
    /\ last.session.finish = IF last.raised = "none" THEN "commit" ELSE "rollback"

\* C10: every store operation acquires exactly one session, commits when it
\* ends normally, rolls back when it ends with an error, and has released
\* the session on both paths once it has returned.
C10_OneSessionPerOperation ==
    /\ []SessionFinished
    /\ [][(last'.raised # "none" => table' = table)
           /\ ((last'.op = "add_item" /\ last'.raised = "none")
                  => Len(table') = Len(table) + 1)]_vars

\* C10 witness: a Create that raised has been rolled back and its session
\* released.
C10_Witness ==
    /\ last.op = "add_item" /\ last.raised = "ValidationError"
    /\ last.session.finish = "rollback" /\ last.session.open = 0
    /\ last.writes = 1

\* The row shows every field the call supplied at the supplied value.
AllApplied(row, call) ==
    /\ IsNone(call.name) \/ PyEq(row.name, call.name)
    /\ IsNone(call.quantity) \/ PyEq(row.quantity, call.quantity)
    /\ IsNone(call.price) \/ PyEq(row.price, call.price)

Finishing(c) == calls[c].pc = "executed" /\ calls'[c].pc = "returned"

\* C11: under any interleaving an Update that supplies several fields is
\* applied whole or not at all: the step that ends it leaves the item with
\* every requested field changed or with the row as it was, nothing else
\* changes the table, and every read by another caller returns the
\* committed row, never the uncommitted work of an Update in progress.
C11_UpdateAllOrNothing ==
    [][/\ \A c \in Callers :
             (Finishing(c) /\ calls[c].op = "update_item")
                 => \/ AllApplied(SqlSelectOne(table', calls[c].item_id), calls[c])
                    \/ table' = table
       /\ table' # table
             => \E c \in Callers : Finishing(c) /\ calls[c].op = "update_item"
       /\ \A c \in Callers :
             (calls[c].pc = "entered" /\ calls'[c].pc = "executed")
                 => /\ calls[c].op = "get_item"
                       => calls'[c].retRow = SqlSelectOne(table, calls[c].item_id)
                    /\ calls[c].op = "get_all_items_data"
                       => calls'[c].retList = table]_vars

\* C11 witness: a two-field Update has committed while another caller is
\* still holding the row it read before the commit.
C11_Witness ==
    \E c, d \in Callers :
        /\ calls[c].pc = "returned" /\ calls[c].op = "update_item"
        /\ calls[c].raised = "none" /\ calls[c].retBool
        /\ ~IsNone(calls[c].name) /\ ~IsNone(calls[c].price)
        /\ SqlSelectOne(table, 1).name = calls[c].name
        /\ calls[d].pc = "executed" /\ calls[d].op = "get_item"
        /\ calls[d].retRow # SqlSelectOne(table, 1)

Handlers == {"get_inventory", "add_item_api", "update_item_api",
             "delete_item_api", "get_item_api"}

ClientError(resp) == resp.code >= 400 /\ resp.code <= 499
ServerError(resp) == resp.code >= 500 /\ resp.code <= 599

\* C12: for every handler and every outcome of the store call, a storage
\* failure included, the caller gets a structured outcome with a
\* success/failure status and a message (or the requested data); no raw
\* exception leaves a handler.
C12_StructuredOutcome ==
    last.op \in Handlers
        => /\ last.resp.escaped = "none"
           /\ last.resp.status \in {"success", "error"}
           /\ last.resp.message \/ last.resp.payload

\* The request supplies a value that breaks a field rule (for Create, a
\* field left out breaks it too).
ValidationFails(call) ==
    CASE call.op = "add_item_api"
           -> \/ _validate_name(call.name).err
              \/ _validate_quantity(call.quantity).err
              \/ _validate_price(call.price).err
      [] call.op = "update_item_api"
           -> \/ ~IsNone(call.name) /\ _validate_name(call.name).err
              \/ ~IsNone(call.quantity) /\ _validate_quantity(call.quantity).err
              \/ ~IsNone(call.price) /\ _validate_price(call.price).err
      [] OTHER -> FALSE

\* C13: at the request boundary every validation failure and every
\* not-found condition gives a client-error outcome (4xx) and every storage
\* failure a server-error outcome (5xx), for create, read, update, delete.
C13_ErrorClasses ==
    [][last'.op \in Handlers
          => /\ ValidationFails(last') => ClientError(last'.resp)
             /\ (/\ last'.op \in {"get_item_api", "update_item_api", "delete_item_api"}
                 /\ last'.item_id \notin Ids(table)
                 /\ ~last'.fail
                 /\ ~ValidationFails(last'))
                   => ClientError(last'.resp)
             /\ (/\ last'.fail
                 /\ ~ValidationFails(last')
                 /\ last'.op = "update_item_api" => Provided(last'))
                   => ServerError(last'.resp)]_vars

\* C14: the create handler accepts every request whose name, quantity and
\* price satisfy the field rules, quantity = 0 and price = 0 included, and
\* the request results in exactly one new stored item with those values.
C14_CreateAcceptsValid ==
    [][(/\ last'.op = "add_item_api"
        /\ ~ValidationFails(last')
        /\ ~last'.fail)
          => /\ last'.resp.code = 201
             /\ last'.resp.status = "success"
             /\ Len(table') = Len(table) + 1
             /\ \A k \in 1..Len(table) : table'[k] = table[k]
             /\ LET row == table'[Len(table')] IN
                /\ PyEq(row.name, last'.name)
                /\ PyEq(row.quantity, last'.quantity)
                /\ PyEq(row.price, last'.price)]_vars

\* C15: a storage failure during schema initialization propagates out of
\* the constructor, so no operation is ever served by a store whose schema
\* initialization did not succeed.
C15_InitFailurePropagates ==
    store.initRaised => (~store.constructed /\ last.op = "__init__")

\* The number of whitespace characters s starts with, and ends with.
Leading(s) == CHOOSE i \in 0..Len(s) :
                  /\ \A k \in 1..i : IsSpace(s[k])
                  /\ i = Len(s) \/ ~IsSpace(s[i + 1])

Trailing(s) == CHOOSE i \in 0..Len(s) :
                   /\ \A k \in (Len(s) - i + 1)..Len(s) : IsSpace(s[k])
                   /\ i = Len(s) \/ ~IsSpace(s[Len(s) - i])

\* s without its surrounding whitespace.
Trimmed(s) == IF Leading(s) = Len(s) THEN <<>>
              ELSE SubSeq(s, Leading(s) + 1, Len(s) - Trailing(s))

NameAcceptable(name) ==
    /\ name.t = "str"
    /\ Trimmed(name.s) # <<>>
    /\ Len(Trimmed(name.s)) <= 255

\* C16: Validate name returns the input without its surrounding whitespace
\* for every string that is non-empty and at most 255 characters after
\* trimming, and fails for every non-string, every empty or whitespace-only
\* string and every string longer than 255 characters after trimming.
C16_ValidateName ==
    last.op = "_validate_name"
        => IF NameAcceptable(last.name)
           THEN ~last.err /\ last.vname = PyStr(Trimmed(last.name.s))
           ELSE last.err

\* C16 witness: a 257-character name with 255 characters between its
\* surrounding whitespace has been validated to those 255 characters.
C16_Witness ==
    /\ last.op = "_validate_name" /\ ~last.err
    /\ Len(last.name.s) = 257
    /\ Len(last.vname.s) = 255

InRange(x) == x.n >= 0 /\ x.n <= 1000000 * Scale

\* C17: a quantity or price below 0 or above 1,000,000 fails, a quantity
\* that is not of integer type and a price that is not numeric fail, and
\* every in-range value of the right type is returned unchanged.
C17_RangeValidation ==
    /\ last.op = "_validate_quantity"
          => IF last.quantity.t \in {"int", "bool"} /\ InRange(last.quantity)
             THEN ~last.err /\ last.vnum = last.quantity
             ELSE last.err
    /\ last.op = "_validate_price"
          => IF last.price.t \in {"int", "float", "bool"} /\ InRange(last.price)
             THEN ~last.err /\ last.vnum = last.price
             ELSE last.err

\* C17 witness: the quantity 1,000,000 has been validated and returned.
C17_Witness ==
    /\ last.op = "_validate_quantity" /\ ~last.err
    /\ last.quantity = PyInt(1000000)
    /\ last.vnum = PyInt(1000000)

NumbersAcceptable(call) ==
    /\ call.quantity.t \in {"int", "bool"} /\ InRange(call.quantity)
    /\ call.price.t \in {"int", "float", "bool"} /\ InRange(call.price)

DictComplete(call) ==
    /\ DOMAIN call.dict = {"item_id", "name", "quantity", "price",
                           "created_at", "update_at"}
    /\ call.dict.item_id = call.item_id
    /\ call.dict.created_at = call.created_at
    /\ call.dict.update_at = call.updated_at

\* C18 as stated: for every name that is non-empty and at most 255
\* characters, with quantity and price in range, construction succeeds and
\* Serialize returns name, quantity and price equal to the constructor
\* inputs unchanged, with item_id and the timestamp fields present.
C18_RoundTripUnchanged ==
    (/\ last.op = "InventoryItem"
     /\ last.name.t = "str" /\ last.name.s # <<>> /\ Len(last.name.s) <= 255
     /\ NumbersAcceptable(last))
        => /\ ~last.err
           /\ last.dict.name = last.name
           /\ last.dict.quantity = last.quantity
           /\ last.dict.price = last.price
           /\ DictComplete(last)

\* C18 as amended: for every name that is non-empty and at most 255
\* characters once its surrounding whitespace is removed, with quantity and
\* price in range, construction succeeds and Serialize returns that trimmed
\* name, quantity and price equal to the constructor inputs unchanged, and
\* item_id and the timestamp fields (null if unset).
C18_RoundTripTrimmed ==
    (/\ last.op = "InventoryItem"
     /\ NameAcceptable(last.name)
     /\ NumbersAcceptable(last))
        => /\ ~last.err
           /\ last.dict.name = PyStr(Trimmed(last.name.s))
           /\ last.dict.quantity = last.quantity
           /\ last.dict.price = last.price
           /\ DictComplete(last)

\* C18 witness: an item built from a name with surrounding whitespace has
\* been serialized with the trimmed name and its timestamps unset.
C18_Witness ==
    /\ last.op = "InventoryItem" /\ ~last.err
    /\ last.name = PyStr(<<" ", "a", " ">>)
    /\ last.dict.name = PyStr(<<"a">>)
    /\ last.dict.quantity = PyInt(0)
    /\ last.dict.created_at = NoneName

\* The rows of tbl whose item_id differs from item_id, in table order.
Others(tbl, item_id) ==
    LET differs(row) == row.item_id # item_id IN SelectSeq(tbl, differs)

\* C19: Update(i, ...) and Delete(i) change no field of, and neither add nor
\* remove, any row whose item_id differs from i; a Create that succeeds adds
\* exactly one row and changes no existing row, and one that fails leaves
\* the table as it was; ReadOne and ReadAll change nothing.
C19_OtherItemsUntouched ==
    [][(last'.op \in {"update_item", "delete_item"}
            => Others(table', last'.item_id) = Others(table, last'.item_id))
       /\ (last'.op = "add_item"
            => IF last'.raised = "none"
               THEN /\ Len(table') = Len(table) + 1
                    /\ last'.retRow.item_id \notin Ids(table)
                    /\ Others(table', last'.retRow.item_id) = table
               ELSE table' = table)
       /\ (last'.op \in {"get_item", "get_all_items_data"}
            => table' = table)]_vars

\* C19 witness: with two rows stored, an update of one of them has taken
\* effect.
C19_Witness ==
    /\ last.op = "update_item" /\ last.retBool
    /\ ~IsNone(last.quantity)
    /\ Len(table) = 2
    /\ \E k \in 1..Len(table) :
          /\ table[k].item_id = last.item_id
          /\ PyEq(table[k].quantity, last.quantity)
    /\ \E k \in 1..Len(table) : table[k].item_id # last.item_id

====
